---- MODULE Spec2Model ----
(***************************************************************************)
(* A model of mangaindo_to_blogger.py: the retrying fetcher (safe_get),    *)
(* the listing parser and pagination walk (parse_all_mangas_page,          *)
(* find_pagination_next, scrape_all_mangas), the detail extractor          *)
(* (extract_manga_detail), the feed builder (build_blogger_feed) and the   *)
(* orchestrator with its worker pool (main).                               *)
(*                                                                         *)
(* The network and the markup are the environment: every fetch and every   *)
(* page content is drawn from a bounded set at the step that reads it.     *)
(***************************************************************************)
EXTENDS Integers, Sequences, FiniteSets, TLC

\* ------------------------------------------------------------------ bounds
\* anchors matched on one listing page
MaxItems == 2
\* largest --limit-manga value drawn (0 = unlimited)
MaxLimit == 2
\* page_count is only compared with 1: it is counted up to this cap and then
\* stays there, so that a walk that never ends revisits a state
PageCountCap == 2

\* --------------------------------------------------------------- constants
\* --test replaces an unlimited run's limit by 10
TestLimit == 10

\* -------------------------------------------------------------------- URLs
\* An absolute URL is [host, segs, slash]: the host, the path's segments and
\* whether the path ends with "/".  A href as found in markup is
\* [kind, host, segs, slash] with kind
\*   "none": the attribute is missing or empty,
\*   "bad" : text urlparse rejects (such as "//[": ValueError, Invalid IPv6 URL),
\*   "rel" : a root-relative path ("/a/"),
\*   "abs" : an absolute URL.
BASE_HOST == "mangaindo.biz"

MkUrl(h, s, sl) == [host |-> h, segs |-> s, slash |-> sl]

BASE_URL == MkUrl(BASE_HOST, <<>>, FALSE)

MkHref(k, h, s, sl) == [kind |-> k, host |-> h, segs |-> s, slash |-> sl]

NoneHref == MkHref("none", "", <<>>, FALSE)

BadHref == MkHref("bad", "", <<>>, FALSE)

RelHref(s) == MkHref("rel", "", s, TRUE)

AbsHref(u) == MkHref("abs", u.host, u.segs, u.slash)

\* urljoin(base, href) raises ValueError
UrlJoinRaises(h) == h.kind = "bad"

\* urljoin(base, href) where it does not raise: an empty href gives the base,
\* a root-relative one keeps the base's host, an absolute one replaces it
urljoin(base, h) ==
  CASE h.kind = "none" -> base
    [] h.kind = "rel" -> MkUrl(base.host, h.segs, h.slash)
    [] OTHER -> MkUrl(h.host, h.segs, h.slash)

\* parsed.path.endswith("/page/1/") or parsed.path.endswith("/page/")
PathLooksPaged(u) ==
  LET n == Len(u.segs) IN
  \/ u.slash /\ n >= 2 /\ u.segs[n - 1] = "page" /\ u.segs[n] = "1"
  \/ u.slash /\ n >= 1 /\ u.segs[n] = "page"

\* urljoin(next_url.rstrip("/") + "/", "page/2/")
GuessPage2(u) == MkUrl(u.host, u.segs \o <<"page", "2">>, TRUE)

\* ------------------------------------------------------------- environment
ALL_MANGAS == MkUrl(BASE_HOST, <<"all-mangas">>, TRUE)

\* values of --start-url
StartUrls ==
  { ALL_MANGAS,
    MkUrl(BASE_HOST, <<"all-mangas", "page", "1">>, TRUE),
    MkUrl(BASE_HOST, <<"all-mangas", "page">>, TRUE),
    MkUrl(BASE_HOST, <<"all-mangas", "page", "1">>, FALSE) }

\* Text is a sequence of tokens, so that it can be empty, joined and escaped.
\* An anchor matched by one of the listing selectors: its href, the title the
\* fallback chain resolves for it, and the image source found for it
MkAnchor(h, t, i) == [href |-> h, title |-> t, image |-> i]

Anchors ==
  { MkAnchor(RelHref(<<"a">>), <<"A">>, RelHref(<<"ia">>)),
    MkAnchor(AbsHref(MkUrl(BASE_HOST, <<"a">>, TRUE)), <<>>, NoneHref),
    MkAnchor(RelHref(<<"b">>), <<"B">>, NoneHref),
    MkAnchor(RelHref(<<"c">>), <<>>, RelHref(<<"ic">>)),
    MkAnchor(NoneHref, <<"N">>, NoneHref),
    MkAnchor(BadHref, <<"X">>, NoneHref) }

RECURSIVE SeqsUpTo(_, _)
SeqsUpTo(S, n) ==
  IF n = 0 THEN {<<>>}
  ELSE LET shorter == SeqsUpTo(S, n - 1) IN
       shorter \cup {Append(s, x) : s \in {t \in shorter : Len(t) = n - 1}, x \in S}

\* the next-page element of a listing page: absent, or an anchor with a href
NoNext == [present |-> FALSE, href |-> NoneHref]

NextLinks ==
  { NoNext,
    [present |-> TRUE, href |-> NoneHref],
    [present |-> TRUE, href |-> BadHref],
    [present |-> TRUE, href |-> RelHref(<<"all-mangas">>)],
    [present |-> TRUE, href |-> RelHref(<<"all-mangas", "page", "2">>)] }

\* the markup of a listing page, as far as the selectors see it
ListingPages == [items : SeqsUpTo(Anchors, MaxItems), next : NextLinks]

\* ---------------------------------------------------------- detail extractor
\* largest number of li.wp-manga-chapter anchors in one document
MaxChapters == 2

\* a chapter anchor: its text and its href
ChapterAnchors ==
  { [text |-> <<"ch1">>, href |-> RelHref(<<"m", "1">>)],
    [text |-> <<"ch2">>, href |-> NoneHref],
    [text |-> <<"ch3">>, href |-> BadHref] }

ChapterLists == SeqsUpTo(ChapterAnchors, MaxChapters)

\* What the network serves for one manga: whether safe_get(manga_url) gave a
\* page, the page's title, description, image source and chapter anchors,
\* whether safe_get(ajax_url) gave a fragment, and the fragment's anchors
DetailEnvs ==
  [ fetched : BOOLEAN,
    title : {<<>>, <<"T">>},
    description : {<<"D">>},
    img : {NoneHref, BadHref, RelHref(<<"i">>)},
    inpage : ChapterLists,
    aux_ok : BOOLEAN,
    aux : ChapterLists ]

\* manga_url.rstrip("/") + "/ajax/chapters/?t=1"
AjaxUrl(manga_url) ==
  MkUrl(manga_url.host, manga_url.segs \o <<"ajax", "chapters", "?t=1">>, FALSE)

MkChapter(t, l) == [title |-> t, link |-> l]

\* "for li in ...select("li.wp-manga-chapter a")" appending to chapters, up to
\* the anchor on which urljoin raises
RECURSIVE ScanChapters(_, _, _)
ScanChapters(lis, base, chapters) ==
  IF lis = <<>> THEN [raised |-> FALSE, chapters |-> chapters]
  ELSE LET li == Head(lis) IN
       IF UrlJoinRaises(li.href) THEN [raised |-> TRUE, chapters |-> chapters]
       ELSE ScanChapters(Tail(lis), base,
                         Append(chapters, MkChapter(li.text, urljoin(base, li.href))))

\* the chapter stage without its fallback to the page's own markup
ChapterStage_nofallback(manga_url, env) ==
  IF env.aux_ok THEN ScanChapters(env.aux, AjaxUrl(manga_url), <<>>)
  ELSE [raised |-> FALSE, chapters |-> <<>>]

\* lines 214-232: the chapters the try block leaves behind
ChapterStage(manga_url, env) ==
  LET ajax_url == AjaxUrl(manga_url)
      fromAux == IF env.aux_ok THEN ScanChapters(env.aux, ajax_url, <<>>)
                 ELSE [raised |-> FALSE, chapters |-> <<>>]
  IN IF fromAux.raised THEN fromAux
     ELSE IF fromAux.chapters = <<>> THEN ScanChapters(env.inpage, manga_url, <<>>)
     ELSE fromAux

NoImage == [set |-> FALSE, url |-> BASE_URL]

NoDetail(k) ==
  [kind |-> k, title |-> <<>>, description |-> <<>>, image |-> NoImage,
   chapters |-> <<>>, url |-> BASE_URL]

\* extract_manga_detail: kind is "none" (returns None), "raised" (an exception
\* leaves the function) or "detail" (the dictionary returned)
extract_manga_detail(manga_url, env) ==
  IF ~env.fetched THEN NoDetail("none")
  ELSE IF UrlJoinRaises(env.img) THEN NoDetail("raised")
  ELSE [kind |-> "detail",
        title |-> env.title,
        description |-> env.description,
        image |-> IF env.img.kind = "none" THEN NoImage
                  ELSE [set |-> TRUE, url |-> urljoin(manga_url, env.img)],
        chapters |-> ChapterStage(manga_url, env).chapters,
        url |-> manga_url]

\* the manga URLs extract_manga_detail is given
MangaUrls == {MkUrl(BASE_HOST, <<"m">>, TRUE), MkUrl(BASE_HOST, <<"m">>, FALSE)}

\* ---------------------------------------------------------- listing parser
MkEntry(t, l, i) == [title |-> t, link |-> l, image |-> i]

\* lines 109-122: the entry's image, resolved against BASE_URL
EntryImage(h) ==
  IF h.kind = "none" THEN NoImage ELSE [set |-> TRUE, url |-> urljoin(BASE_URL, h)]

\* parse_all_mangas_page: the loop over the matched anchors, with the set seen
\* and the list items; raised tells that urljoin raised on the way
RECURSIVE ParseAnchors(_, _, _)
ParseAnchors(as, seen, items) ==
  IF as = <<>> THEN [raised |-> FALSE, items |-> items]
  ELSE LET a == Head(as) IN
       IF a.href.kind = "none" THEN ParseAnchors(Tail(as), seen, items)
       ELSE IF UrlJoinRaises(a.href) THEN [raised |-> TRUE, items |-> <<>>]
       ELSE LET href == urljoin(BASE_URL, a.href) IN
            IF href \in seen
            THEN ParseAnchors(Tail(as), seen, items)
            ELSE IF UrlJoinRaises(a.image) THEN [raised |-> TRUE, items |-> <<>>]
            ELSE ParseAnchors(Tail(as), seen \cup {href},
                              Append(items, MkEntry(a.title, href, EntryImage(a.image))))

parse_all_mangas_page(page) == ParseAnchors(page.items, {}, <<>>)

LinksOf(s) == {s[i].link : i \in 1..Len(s)}

\* the dedup test on the whole entry instead of its link
IsNewLink_entry(it, ms) == \A i \in 1..Len(ms) : ms[i] # it

\* line 155: it['link'] not in existing_links, which holds the links of mangas
IsNewLink(it, ms) == it.link \notin LinksOf(ms)

\* the limit test with > for >=
LimitReached_late(limit, ms) == limit # 0 /\ Len(ms) > limit

\* line 159: limit_manga and len(mangas) >= limit_manga
LimitReached(limit, ms) == limit # 0 /\ Len(ms) >= limit

\* ------------------------------------------------------------- pagination
\* find_pagination_next raises
FindNextRaises(nl) == nl.present /\ UrlJoinRaises(nl.href)

\* find_pagination_next: [found, url]
find_pagination_next(nl) ==
  IF nl.present THEN [found |-> TRUE, url |-> urljoin(BASE_URL, nl.href)]
  ELSE [found |-> FALSE, url |-> BASE_URL]

\* the page/2/ guess made after every page, not only the first
NextUrlAfter_anypage(nl, count, url) ==
  LET nxt == find_pagination_next(nl) IN
  IF nxt.found THEN nxt
  ELSE IF ~PathLooksPaged(url)
       THEN [found |-> TRUE, url |-> GuessPage2(url)]
       ELSE [found |-> FALSE, url |-> url]

\* lines 163-175: the next URL after a page, or none
NextUrlAfter(nl, count, url) ==
  LET nxt == find_pagination_next(nl) IN
  IF nxt.found THEN nxt
  ELSE IF count = 1 /\ ~PathLooksPaged(url)
       THEN [found |-> TRUE, url |-> GuessPage2(url)]
       ELSE [found |-> FALSE, url |-> url]

\* ------------------------------------------------------------ text of a URL
\* a URL where the code uses it as text (a title)
UrlText(u) == <<"https://", u.host>> \o u.segs \o (IF u.slash THEN <<"/">> ELSE <<>>)

\* x or y, on text
TextOr(x, y) == IF x # <<>> THEN x ELSE y

\* ------------------------------------------------------------------ fetcher
\* largest max_retries and backoff drawn for safe_get
MaxRetries == 3
MaxBackoff == 2

\* what one session.get does: a status code, or an exception ("exc")
GetOutcomes == {"200", "404", "500", "exc"}

\* the sleep without the attempt number
SleepSeconds_flat(backoff, attempt) == backoff

\* time.sleep(backoff * (attempt + 1))
SleepSeconds(backoff, attempt) == backoff * (attempt + 1)

\* ------------------------------------------------------------- feed builder
\* largest number of details drawn for build_blogger_feed
MaxDetails == 2

\* html.escape, token by token
html_escape(t) ==
  [i \in DOMAIN t |->
     CASE t[i] = "&" -> "&amp;"
       [] t[i] = "<" -> "&lt;"
       [] t[i] = ">" -> "&gt;"
       [] t[i] = "'" -> "&#x27;"
       [] OTHER -> t[i]]

\* make_atom_entry: the entry's escaped title, its link and its categories
make_atom_entry(title, link, categories) ==
  [title |-> html_escape(title), link |-> link, categories |-> categories]

\* lines 275-280: the manga post of m, if any
MangaPost(m, include_manga_post) ==
  IF include_manga_post
  THEN <<make_atom_entry(TextOr(m.title, UrlText(m.url)), m.url, <<"Manga", "Komik">>)>>
  ELSE <<>>

\* the chapter posts written whatever include_chapters says
ChapterPosts_always(m, include_chapters) ==
  [i \in 1..Len(m.chapters) |->
     make_atom_entry(m.title \o <<"-">> \o m.chapters[i].title,
                     m.chapters[i].link, <<"Chapter", "Manga">>)]

\* lines 282-286: the chapter posts of m, if any; the token "-" is the dash
\* between the manga's title and the chapter's
ChapterPosts(m, include_chapters) ==
  IF include_chapters /\ m.chapters # <<>>
  THEN [i \in 1..Len(m.chapters) |->
          make_atom_entry(m.title \o <<"-">> \o m.chapters[i].title,
                          m.chapters[i].link, <<"Chapter", "Manga">>)]
  ELSE <<>>

\* build_blogger_feed: the entries, in the order they are written
RECURSIVE build_blogger_feed(_, _, _)
build_blogger_feed(ds, include_chapters, include_manga_post) ==
  IF ds = <<>> THEN <<>>
  ELSE MangaPost(Head(ds), include_manga_post)
       \o ChapterPosts(Head(ds), include_chapters)
       \o build_blogger_feed(Tail(ds), include_chapters, include_manga_post)

\* the details build_blogger_feed is given when it is taken on its own:
\* with and without a title, with 0 to 2 chapters
FeedChapter(n) == MkChapter(<<"ch", n>>, MkUrl(BASE_HOST, <<"m", n>>, TRUE))

FeedDetails ==
  { [kind |-> "detail", title |-> t, description |-> <<"D">>, image |-> NoImage,
     chapters |-> c, url |-> MkUrl(BASE_HOST, <<"m">>, TRUE)] :
      t \in {<<>>, <<"T">>},
      c \in {<<>>, <<FeedChapter("1")>>, <<FeedChapter("1"), FeedChapter("2")>>} }

\* ------------------------------------------------------------- orchestrator
\* largest --workers value drawn
MaxWorkers == 2

\* what the network serves to a detail task of main: no page, a page whose
\* image source urljoin rejects, or a page with one chapter at the endpoint
MainDetailEnvs ==
  { [fetched |-> FALSE, title |-> <<>>, description |-> <<"D">>, img |-> NoneHref,
     inpage |-> <<>>, aux_ok |-> TRUE, aux |-> <<>>],
    [fetched |-> TRUE, title |-> <<>>, description |-> <<"D">>, img |-> BadHref,
     inpage |-> <<>>, aux_ok |-> TRUE, aux |-> <<>>],
    [fetched |-> TRUE, title |-> <<>>, description |-> <<"D">>, img |-> NoneHref,
     inpage |-> <<>>, aux_ok |-> TRUE,
     aux |-> <<[text |-> <<"ch1">>, href |-> RelHref(<<"m", "1">>)]>>] }

\* lines 318-324: the detail appended for listing entry m
Backfill(d, m) ==
  [d EXCEPT !.title = IF d.title = <<>> THEN TextOr(m.title, UrlText(m.link)) ELSE d.title,
            !.image = IF ~d.image.set THEN m.image ELSE d.image]

\* "for fut in as_completed(future_to_url)" has yielded every future
AllCollected(ts) == \A i \in 1..Len(ts) : ts[i].st = "collected"

\* the loop body without its "if d" test
CollectResult_unchecked(ds, out, m) ==
  IF out.kind # "raised" THEN Append(ds, Backfill(out, m)) ELSE ds

\* lines 317-329: what the loop body appends for a finished task
CollectResult(ds, out, m) ==
  IF out.kind = "detail" THEN Append(ds, Backfill(out, m)) ELSE ds

\* ------------------------------------------------------------------- state
VARIABLES
  limit_manga,   \* scrape_all_mangas: its parameter limit_manga
  next_url,      \* scrape_all_mangas: next_url
  page_count,    \* scrape_all_mangas: page_count (capped)
  mangas,        \* scrape_all_mangas: mangas, then main: mangas
  rest,          \* page_items from the for loop's current item on
  cur_next,      \* the next-page element of the page r.text
  pageLinks,     \* history: the links parsed from the pages fetched so far
  pc,            \* where the run is
  workers,       \* main: args.workers, once the pool exists
  tasks,         \* main: the futures, one per submitted task
  details,       \* main: details
  fb,            \* one call of build_blogger_feed: arguments and entries
  dx,            \* one call of extract_manga_detail: its argument, what the
                 \* network serves, and what it returns
  sg             \* one call of safe_get: arguments, loop variable, the
                 \* outcomes of its attempts, its sleeps, what it returns

walkVars == <<limit_manga, next_url, page_count, mangas, rest, cur_next, pageLinks>>

poolVars == <<workers, tasks, details>>

vars == <<limit_manga, next_url, page_count, mangas, rest, cur_next, pageLinks, pc,
          workers, tasks, details, fb, dx, sg>>

\* the value of fb, dx and sg while no such call is being looked at
NoFeed == <<>>

NoCall == <<>>

NoGet == <<>>

\* the locals of scrape_all_mangas before its loop, and after it has returned
WalkIdle ==
  /\ next_url = ALL_MANGAS
  /\ page_count = 0
  /\ rest = <<>>
  /\ cur_next = NoNext
  /\ pageLinks = {}

\* ------------------------------------------------------------------- main
\* main after parse_args and lines 303-304, in scrape_all_mangas before its loop
Init ==
  /\ \E l \in 0..MaxLimit, test \in BOOLEAN :
       limit_manga = IF test /\ l = 0 THEN TestLimit ELSE l
  /\ next_url \in StartUrls
  /\ page_count = 0
  /\ mangas = <<>>
  /\ rest = <<>>
  /\ cur_next = NoNext
  /\ pageLinks = {}
  /\ pc = "fetch"
  /\ workers = 0
  /\ tasks = <<>>
  /\ details = <<>>
  /\ fb = NoFeed
  /\ dx = NoCall
  /\ sg = NoGet

\* r = safe_get(next_url) gave None: break, return mangas
FetchFails ==
  /\ pc = "fetch"
  /\ pc' = "returned"
  /\ UNCHANGED <<walkVars, poolVars, fb, dx, sg>>

\* r = safe_get(next_url) gave a page: count it and parse it
FetchPage ==
  /\ pc = "fetch"
  /\ \E page \in ListingPages :
       LET p == parse_all_mangas_page(page) IN
       /\ page_count' = IF page_count < PageCountCap THEN page_count + 1 ELSE page_count
       /\ IF p.raised
          THEN /\ pc' = "raised"
               /\ UNCHANGED <<rest, cur_next, pageLinks>>
          ELSE /\ pc' = "merge"
               /\ rest' = p.items
               /\ cur_next' = page.next
               /\ pageLinks' = pageLinks \cup LinksOf(p.items)
  /\ UNCHANGED <<limit_manga, next_url, mangas, poolVars, fb, dx, sg>>

\* one round of "for it in page_items"
MergeItem ==
  /\ pc = "merge"
  /\ rest # <<>>
  /\ LET it == Head(rest) IN
     IF IsNewLink(it, mangas)
     THEN /\ mangas' = Append(mangas, it)
          /\ IF LimitReached(limit_manga, mangas')
             THEN pc' = "returned" /\ UNCHANGED rest
             ELSE pc' = pc /\ rest' = Tail(rest)
     ELSE /\ rest' = Tail(rest)
          /\ UNCHANGED <<mangas, pc>>
  /\ UNCHANGED <<limit_manga, next_url, page_count, cur_next, pageLinks, poolVars, fb, dx, sg>>

\* after the for loop: the next URL, or the end of the walk
Paginate ==
  /\ pc = "merge"
  /\ rest = <<>>
  /\ IF FindNextRaises(cur_next)
     THEN pc' = "raised" /\ UNCHANGED next_url
     ELSE LET nxt == NextUrlAfter(cur_next, page_count, next_url) IN
          IF nxt.found
          THEN pc' = "fetch" /\ next_url' = nxt.url
          ELSE pc' = "returned" /\ UNCHANGED next_url
  /\ UNCHANGED <<limit_manga, page_count, mangas, rest, cur_next, pageLinks, poolVars,
                 fb, dx, sg>>

scrape_all_mangas == FetchFails \/ FetchPage \/ MergeItem \/ Paginate

\* lines 307-313: the walk has returned and its locals are gone; the pool is
\* made with args.workers threads (ValueError when that is not positive) and
\* one task is submitted per entry of mangas
StartPool ==
  /\ pc = "returned"
  /\ \E w \in 0..MaxWorkers :
       IF w <= 0
       THEN pc' = "raised" /\ UNCHANGED poolVars
       ELSE /\ pc' = "pool"
            /\ workers' = w
            /\ tasks' = [i \in 1..Len(mangas) |-> [st |-> "queued", out |-> NoDetail("none")]]
            /\ details' = <<>>
  /\ limit_manga' = 0
  /\ next_url' = ALL_MANGAS
  /\ page_count' = 0
  /\ rest' = <<>>
  /\ cur_next' = NoNext
  /\ pageLinks' = {}
  /\ UNCHANGED <<mangas, fb, dx, sg>>

Running(ts) == {i \in 1..Len(ts) : ts[i].st = "running"}

\* a free worker thread takes a queued task
TaskStart(i) ==
  /\ pc = "pool"
  /\ tasks[i].st = "queued"
  /\ Cardinality(Running(tasks)) < workers
  /\ tasks' = [tasks EXCEPT ![i].st = "running"]
  /\ UNCHANGED <<walkVars, pc, workers, details, fb, dx, sg>>

\* the task's call of extract_manga_detail(m['link']) ends
TaskFinish(i) ==
  /\ pc = "pool"
  /\ tasks[i].st = "running"
  /\ \E e \in MainDetailEnvs :
       tasks' = [tasks EXCEPT ![i] = [st |-> "done",
                                      out |-> extract_manga_detail(mangas[i].link, e)]]
  /\ UNCHANGED <<walkVars, pc, workers, details, fb, dx, sg>>

\* as_completed yields a finished future: the body of the loop in main
Collect(i) ==
  /\ pc = "pool"
  /\ tasks[i].st = "done"
  /\ tasks' = [tasks EXCEPT ![i].st = "collected"]
  /\ details' = CollectResult(details, tasks[i].out, mangas[i])
  /\ UNCHANGED <<walkVars, pc, workers, fb, dx, sg>>

\* lines 331-335: the loop and the with block are over; the feed is built
\* from details with the two flags of args, and written
BuildAndWrite ==
  /\ pc = "pool"
  /\ AllCollected(tasks)
  /\ pc' = "written"
  /\ \E no_chapters \in BOOLEAN, no_manga_posts \in BOOLEAN :
       fb' = [details |-> details,
              include_chapters |-> ~no_chapters,
              include_manga_post |-> ~no_manga_posts,
              entries |-> build_blogger_feed(details, ~no_chapters, ~no_manga_posts)]
  /\ UNCHANGED <<walkVars, poolVars, dx, sg>>

StartSomeTask == \E i \in 1..Len(tasks) : TaskStart(i)

FinishSomeTask == \E i \in 1..Len(tasks) : TaskFinish(i)

CollectSomeTask == \E i \in 1..Len(tasks) : Collect(i)

Next ==
  \/ scrape_all_mangas
  \/ StartPool
  \/ StartSomeTask
  \/ FinishSomeTask
  \/ CollectSomeTask
  \/ BuildAndWrite

Spec == Init /\ [][Next]_vars

\* every step the program can take is taken sooner or later: the main thread
\* and the worker threads keep running
FairSpec == Spec /\ WF_vars(Next)

\* the variables of main, for the specifications of single calls
MainIdle ==
  /\ limit_manga = 0
  /\ mangas = <<>>
  /\ WalkIdle
  /\ workers = 0
  /\ tasks = <<>>
  /\ details = <<>>

\* ------------------------------------------------------ safe_get on its own
InitFetch ==
  /\ MainIdle
  /\ pc = "safe_get"
  /\ fb = NoFeed
  /\ dx = NoCall
  /\ \E m \in 0..MaxRetries, b \in 1..MaxBackoff :
       sg = [max_retries |-> m, backoff |-> b, attempt |-> 0, log |-> <<>>,
             slept |-> <<>>, ret |-> "pending"]

\* one round of "for attempt in range(max_retries)"
Attempt ==
  /\ pc = "safe_get"
  /\ sg.ret = "pending"
  /\ sg.attempt < sg.max_retries
  /\ \E o \in GetOutcomes :
       IF o = "200"
       THEN sg' = [sg EXCEPT !.log = Append(@, o), !.ret = "response"]
       ELSE sg' = [sg EXCEPT !.log = Append(@, o),
                             !.slept = Append(@, SleepSeconds(sg.backoff, sg.attempt)),
                             !.attempt = @ + 1]
  /\ UNCHANGED <<walkVars, poolVars, pc, fb, dx>>

\* the range is exhausted: return None
GiveUp ==
  /\ pc = "safe_get"
  /\ sg.ret = "pending"
  /\ sg.attempt >= sg.max_retries
  /\ sg' = [sg EXCEPT !.ret = "None"]
  /\ UNCHANGED <<walkVars, poolVars, pc, fb, dx>>

NextFetch == Attempt \/ GiveUp

SpecFetch == InitFetch /\ [][NextFetch]_vars

\* ------------------------------------------- extract_manga_detail on its own
InitDetail ==
  /\ MainIdle
  /\ pc = "detail"
  /\ fb = NoFeed
  /\ sg = NoGet
  /\ \E u \in MangaUrls, e \in DetailEnvs :
       dx = [url |-> u, env |-> e, out |-> NoDetail("none")]

CallExtractDetail ==
  /\ pc = "detail"
  /\ pc' = "detail_done"
  /\ dx' = [dx EXCEPT !.out = extract_manga_detail(dx.url, dx.env)]
  /\ UNCHANGED <<walkVars, poolVars, fb, sg>>

SpecDetail == InitDetail /\ [][CallExtractDetail]_vars

\* --------------------------------------------- build_blogger_feed on its own
InitFeed ==
  /\ MainIdle
  /\ pc = "feed"
  /\ dx = NoCall
  /\ sg = NoGet
  /\ \E ds \in SeqsUpTo(FeedDetails, MaxDetails), c \in BOOLEAN, p \in BOOLEAN :
       fb = [details |-> ds, include_chapters |-> c, include_manga_post |-> p,
             entries |-> <<>>]

CallBuildFeed ==
  /\ pc = "feed"
  /\ pc' = "feed_done"
  /\ fb' = [fb EXCEPT !.entries =
              build_blogger_feed(fb.details, fb.include_chapters, fb.include_manga_post)]
  /\ UNCHANGED <<walkVars, poolVars, dx, sg>>

SpecFeed == InitFeed /\ [][CallBuildFeed]_vars

\* ------------------------------------------------------------------ claims
Min(a, b) == IF a <= b THEN a ELSE b

DistinctLinks(s) == \A i, j \in 1..Len(s) : i # j => s[i].link # s[j].link

InWalk == pc \in {"fetch", "merge"}

\* C1: with a limit k > 0 the accumulator never holds more than k entries,
\* the walk goes on only while it holds fewer than k, and when the walk
\* returns it holds exactly min(k, the number of distinct links on the pages
\* the walk fetched); a return at the limit leaves the k-th entry's page
\* unfinished.
C1_LimitRespected ==
  (limit_manga > 0 /\ (InWalk \/ pc = "returned")) =>
    /\ Len(mangas) <= limit_manga
    /\ InWalk => Len(mangas) < limit_manga
    /\ pc = "returned" =>
         /\ Len(mangas) = Min(limit_manga, Cardinality(pageLinks))
         /\ Len(mangas) = limit_manga =>
              rest # <<>> /\ Head(rest) = mangas[Len(mangas)]

\* a walk with limit 2 that returned in the middle of its second page, with
\* three distinct links on the pages fetched
C1_Witness ==
  /\ pc = "returned"
  /\ limit_manga = 2
  /\ Len(mangas) = 2
  /\ Len(rest) = 2
  /\ page_count = 2
  /\ Cardinality(pageLinks) = 3

\* C2: the links of the accumulated entries are pairwise distinct in every
\* state of the walk, and so are the links of the entries the listing parser
\* returned for the current page.
C2_LinksDistinct == DistinctLinks(mangas) /\ DistinctLinks(rest)

\* the second page brings a link the accumulator already holds, under another
\* title
C2_Witness ==
  /\ pc = "merge"
  /\ page_count = 2
  /\ Len(mangas) = 2
  /\ rest # <<>>
  /\ Head(rest).link \in LinksOf(mangas)
  /\ \A i \in 1..Len(mangas) : mangas[i] # Head(rest)

\* the path of u ends with /page/1/ or /page/
EndsWith(s, suffix) ==
  /\ Len(s) >= Len(suffix)
  /\ SubSeq(s, Len(s) - Len(suffix) + 1, Len(s)) = suffix

C9_LooksPaginated(u) ==
  u.slash /\ (EndsWith(u.segs, <<"page", "1">>) \/ EndsWith(u.segs, <<"page">>))

\* C9: when the step after a page's entries ends without an exception, the
\* next URL is the page's next-page link if it has one; without one it is the
\* current URL followed by page/2/ if the page was the walk's first and the
\* current URL's path ends with neither /page/1/ nor /page/; otherwise the
\* walk returns without another fetch.
C9_NextUrlRule ==
  [][(pc = "merge" /\ rest = <<>> /\ pc' # "raised") =>
       IF cur_next.present
       THEN /\ pc' = "fetch"
            /\ next_url' = (IF cur_next.href.kind = "none" THEN BASE_URL
                            ELSE [host |-> IF cur_next.href.kind = "abs"
                                           THEN cur_next.href.host ELSE BASE_HOST,
                                  segs |-> cur_next.href.segs,
                                  slash |-> cur_next.href.slash])
       ELSE IF page_count = 1 /\ ~C9_LooksPaginated(next_url)
            THEN /\ pc' = "fetch"
                 /\ next_url' = [next_url EXCEPT !.segs = @ \o <<"page", "2">>,
                                                 !.slash = TRUE]
            ELSE /\ pc' = "returned"
                 /\ next_url' = next_url]_vars

\* the walk is about to fetch the page/2/ URL guessed from a start URL
\* .../page/1 without a closing slash
C9_Witness ==
  /\ pc = "fetch"
  /\ page_count = 1
  /\ next_url = [host |-> BASE_HOST,
                 segs |-> <<"all-mangas", "page", "1", "page", "2">>, slash |-> TRUE]

\* C10: the walk reaches one of its terminal states.
C10_WalkTerminates == <>(~InWalk)

\* C7: no run of main ends before the step that builds the feed and writes
\* the document.
C7_DocumentAlwaysWritten == pc # "raised"

DetailTasks == {i \in 1..Len(tasks) : tasks[i].out.kind = "detail"}

\* C8: one task is submitted per collected listing entry; when the feed is
\* built every task has run and has been collected; and the details handed
\* to build_blogger_feed hold, in some order, exactly one element for each
\* task that returned a detail, none for the others.
C8_PoolCollectsAll ==
  /\ pc \in {"pool", "written"} => Len(tasks) = Len(mangas)
  /\ pc = "written" =>
       /\ \A i \in 1..Len(tasks) : tasks[i].st = "collected"
       /\ Len(fb.details) = Cardinality(DetailTasks)
       /\ \A i \in DetailTasks :
            \E j \in 1..Len(fb.details) : fb.details[j].url = mangas[i].link
       /\ \A j \in 1..Len(fb.details) :
            \E i \in DetailTasks :
              /\ fb.details[j].url = mangas[i].link
              /\ fb.details[j].chapters = tasks[i].out.chapters

\* three tasks, the second raised, and the third's detail collected before
\* the first's
C8_Witness ==
  /\ pc = "written"
  /\ Len(tasks) = 3
  /\ tasks[1].out.kind = "detail"
  /\ tasks[2].out.kind = "raised"
  /\ tasks[3].out.kind = "detail"
  /\ Len(fb.details) = 2
  /\ fb.details[1].url = mangas[3].link

\* C3: safe_get makes at most max_retries attempts; a response returned is
\* that of the last attempt made, the only one with status 200; every failed
\* attempt n (status or exception) is followed by a sleep of backoff * n; None
\* is returned only after max_retries failed attempts; and the call ends in no
\* other way.
C3_SafeGetContract ==
  pc = "safe_get" =>
    LET n == Len(sg.log)
        failed == {i \in 1..n : sg.log[i] # "200"}
    IN /\ n <= sg.max_retries
       /\ sg.ret \in {"pending", "response", "None"}
       /\ sg.ret = "response" => sg.log[n] = "200" /\ failed = 1..(n - 1)
       /\ sg.ret # "response" => failed = 1..n
       /\ Len(sg.slept) = Cardinality(failed)
       /\ \A i \in 1..Len(sg.slept) : sg.slept[i] = sg.backoff * i
       /\ sg.ret = "None" => n = sg.max_retries

\* a response at the third attempt, after an exception and a status 500
C3_Witness ==
  /\ pc = "safe_get"
  /\ sg.ret = "response"
  /\ sg.backoff = 2
  /\ sg.log = <<"exc", "500", "200">>
  /\ sg.slept = <<2, 4>>

\* an exception was raised in the chapter stage of the call dx
C5_StageRaised ==
  \/ dx.env.aux_ok /\ \E i \in 1..Len(dx.env.aux) : dx.env.aux[i].href.kind = "bad"
  \/ /\ ~dx.env.aux_ok \/ dx.env.aux = <<>>
     /\ \E i \in 1..Len(dx.env.inpage) : dx.env.inpage[i].href.kind = "bad"

\* the chapter items of a document as the claim counts them: one per anchor,
\* in order, with the anchor's text
C4_ItemsOf(chapters, lis, base) ==
  /\ Len(chapters) = Len(lis)
  /\ \A i \in 1..Len(lis) :
       /\ chapters[i].title = lis[i].text
       /\ lis[i].href.kind = "rel" =>
            chapters[i].link = [host |-> base.host, segs |-> lis[i].href.segs,
                                slash |-> lis[i].href.slash]

C5_ExceptionLeavesNoChapters ==
  (pc = "detail_done" /\ dx.env.fetched /\ dx.env.img.kind # "bad" /\ C5_StageRaised) =>
    /\ dx.out.kind = "detail"
    /\ dx.out.title = dx.env.title
    /\ dx.out.description = dx.env.description
    /\ dx.out.url = dx.url
    /\ dx.out.chapters = <<>>

RECURSIVE C6_ChaptersBefore(_, _)
C6_ChaptersBefore(ds, d) ==
  IF d <= 1 THEN 0 ELSE Len(ds[d - 1].chapters) + C6_ChaptersBefore(ds, d - 1)

\* the number of entries written before those of the d-th detail
C6_Offset(d) ==
  (IF fb.include_manga_post THEN d - 1 ELSE 0)
  + (IF fb.include_chapters THEN C6_ChaptersBefore(fb.details, d) ELSE 0)

\* C6: the feed holds, detail by detail in input order, the manga entry if
\* include_manga_post is set and then one entry per chapter, in the chapter
\* list's order, if include_chapters is set, and nothing else.
C6_FeedEntries ==
  pc = "feed_done" =>
    LET n == Len(fb.details)
        post == IF fb.include_manga_post THEN 1 ELSE 0
    IN /\ Len(fb.entries) = C6_Offset(n + 1)
       /\ \A d \in 1..n :
            /\ fb.include_manga_post =>
                 /\ fb.entries[C6_Offset(d) + 1].link = fb.details[d].url
                 /\ fb.entries[C6_Offset(d) + 1].categories = <<"Manga", "Komik">>
            /\ fb.include_chapters =>
                 \A c \in 1..Len(fb.details[d].chapters) :
                   /\ fb.entries[C6_Offset(d) + post + c].link = fb.details[d].chapters[c].link
                   /\ fb.entries[C6_Offset(d) + post + c].categories = <<"Chapter", "Manga">>
       /\ ~fb.include_chapters =>
            \A e \in 1..Len(fb.entries) : fb.entries[e].categories # <<"Chapter", "Manga">>

\* both flags set, a detail with no chapter followed by one with two: one
\* entry for the first, three for the second
C6_Witness ==
  /\ pc = "feed_done"
  /\ fb.include_chapters /\ fb.include_manga_post
  /\ Len(fb.details) = 2
  /\ fb.details[1].chapters = <<>>
  /\ Len(fb.details[2].chapters) = 2
  /\ Len(fb.entries) = 4
  /\ fb.entries[2].link = fb.details[2].url

====
